---- MODULE Spec2Model ----
(***************************************************************************)
(* relayfetch: the synchronisation engine (sync_once, download_file), the  *)
(* configuration center, the periodic scheduler and the operations of the  *)
(* management core, as a state machine.                                    *)
(*                                                                         *)
(* A file on disk is a record [present, bytes]; a byte is the pair         *)
(* <<url, version>> of the origin content it came from, so that a payload  *)
(* holding a mixture of two transfers is told apart from a complete body.  *)
(* An Option<T> is a sequence of length at most one.                       *)
(*                                                                         *)
(* sync_once holds a read guard on the configuration for the whole pass    *)
(* and clean_unused_files for the whole call: a writer of the              *)
(* configuration (update_config, reload_configs) takes its step only when  *)
(* no such guard is held.  A writer that arrives while a guard is held     *)
(* waits in the lock's queue (admin.writer), and a reader that arrives     *)
(* behind it waits for it: tokio's RwLock is fair and write-preferring.    *)
(* Spec, which runs passes next to trigger_sync, leaves the documents as   *)
(* they were loaded; SpecSnap replaces the file map once.  A sidecar that  *)
(* is present may hold text that is not the TOML of a Meta (parsable).     *)
(***************************************************************************)
EXTENDS Integers, Sequences, FiniteSets, TLC

VARIABLES
    config,     \* ConfigCenter.config: the RuntimeConfig fields the engine reads
    files,      \* ConfigCenter.files: filename -> source url
    status,     \* ConfigCenter.sync_state: SyncStatus
    disk,       \* payload and temp files under storage_dir: path -> file
    metas,      \* sidecar files under storage_dir: path -> sidecar
    origin,     \* the origin servers: url -> version currently published
    runner,     \* one record per caller of sync_once (scheduler, trigger_sync)
    tasks,      \* one record per spawned download task: <<runner, filename>> -> task
    sync_lock,  \* permits of the scheduler's 1-permit semaphore
    now,        \* logical wall clock (SystemTime::now / Utc::now)
    budget,     \* what is left of the run's bounds: passes, origin updates, management calls
    docs,       \* the two documents on disk: config.toml and files.toml
    admin,      \* the management operations in progress and the last one that returned
    sched       \* the periodic scheduler: its position in the loop, the interval it sleeps

vars == <<config, files, status, disk, metas, origin, runner, tasks, sync_lock, now, budget,
          docs, admin, sched>>

---------------------------------------------------------------------------
(* Bounds of the model *)

MaxPasses == 2          \* sync passes started in one run
MaxOriginUpdates == 1   \* new versions published by the origins in one run
MaxAdminCalls == 4      \* management calls and edits of the documents in one run
MaxAttempts == 3        \* download_retry where the retries of one file are followed

None == <<>>
Some(x) == <<x>>

---------------------------------------------------------------------------
(* Names, paths, origin content *)

FileNames == {<<"a", "bin">>, <<"a", "txt">>, <<"b", "bin">>}
Stems == {"a", "b"}
DataPaths == Stems \X {"bin", "txt", "tmp"}
MetaPaths == Stems \X {"meta"}
Urls == {"u1", "u2", "u3"}
Versions == {1, 2}
Runners == {"sched", "trigger"}
TaskIds == Runners \X FileNames

\* Path::with_extension: the extension of the last component is REPLACED
WithExtension(path, ext) == <<path[1], ext>>
FilePath(file) == file
TmpPath(file) == WithExtension(FilePath(file), "tmp")
MetaPath(file) == WithExtension(FilePath(file), "meta")

DefaultUrl(file) ==
    CASE file = <<"a", "bin">> -> "u1"
      [] file = <<"a", "txt">> -> "u2"
      [] OTHER -> "u3"

\* u1 publishes two bytes in every version, u2 one byte and then an empty body, u3 two
\* bytes and then one
BodyLen(url, ver) ==
    CASE url = "u2" -> IF ver = 1 THEN 1 ELSE 0
      [] url = "u3" -> IF ver = 1 THEN 2 ELSE 1
      [] OTHER -> 2
Body(url, ver) == [i \in 1..BodyLen(url, ver) |-> <<url, ver>>]
ETag(url, ver) == <<url, ver>>
Hole == <<"hole", 0>>

AbsentFile == [present |-> FALSE, bytes |-> <<>>]
FileOf(b) == [present |-> TRUE, bytes |-> b]

\* Meta::default()
DefaultMeta == [etag |-> None, last_modified |-> None, fetched_at |-> None, total_size |-> None]
\* a sidecar file: absent, the TOML of a Meta, or text that toml::from_str rejects
AbsentMeta == [present |-> FALSE, parsable |-> TRUE, meta |-> DefaultMeta]
MetaFileOf(meta) == [present |-> TRUE, parsable |-> TRUE, meta |-> meta]
GarbledMeta == [present |-> TRUE, parsable |-> FALSE, meta |-> DefaultMeta]

\* load_meta(path).unwrap_or_default(): a missing file is Ok(Meta::default()), a read
\* or parse error is an Err that unwrap_or_default replaces by Meta::default()
load_meta(m, path) ==
    IF m[path].present /\ m[path].parsable THEN m[path].meta ELSE DefaultMeta
\* save_meta(path, meta)
save_meta(m, path, meta) == [m EXCEPT ![path] = MetaFileOf(meta)]
\* fs::metadata(path).map(len).unwrap_or(0)
FileSize(d, path) == IF d[path].present THEN Len(d[path].bytes) ELSE 0

---------------------------------------------------------------------------
(* The status writers of the configuration center *)

FileProgress(downloaded, total, done, error) ==
    [downloaded |-> downloaded, total |-> total, done |-> done, error |-> error]

Upsert(fn, key, val) == [k \in DOMAIN fn \cup {key} |-> IF k = key THEN val ELSE fn[k]]

sync_started(s, total, t) ==
    [s EXCEPT !.running = TRUE, !.start_time = Some(t), !.total_files = total,
              !.finished_files = 0, !.failed_files = 0,
              !.files = [k \in {} |-> FileProgress(0, None, FALSE, None)],
              !.last_result = "Pending"]

file_started(s, file, total) ==
    [s EXCEPT !.files = Upsert(s.files, file, FileProgress(0, total, FALSE, None))]

file_progress(s, file, downloaded) ==
    IF file \in DOMAIN s.files
    THEN [s EXCEPT !.files[file].downloaded = downloaded]
    ELSE s

file_finished(s, file) ==
    [s EXCEPT !.files = IF file \in DOMAIN s.files
                        THEN [s.files EXCEPT ![file].done = TRUE]
                        ELSE s.files,
              !.finished_files = s.finished_files + 1]

file_error(s, file, error) ==
    [s EXCEPT !.files = Upsert(s.files, file, FileProgress(0, None, TRUE, Some(error))),
              !.finished_files = s.finished_files + 1,
              !.failed_files = s.failed_files + 1]

sync_finished(s, t) ==
    LET result == IF s.failed_files = 0 /\ s.finished_files = s.total_files
                  THEN "Success"
                  ELSE IF s.failed_files > 0 /\ s.finished_files > 0
                       THEN "PartialSuccess"
                       ELSE "Failed"
    IN [s EXCEPT !.running = FALSE, !.last_sync = Some(t), !.last_result = result,
                 !.last_ok_sync = IF result = "Success" THEN Some(t) ELSE s.last_ok_sync]

---------------------------------------------------------------------------
(* Files and the handles open on them *)

\* The handle of a task names the path its open file currently lives at; None when
\* the task has no open file or its file has been unlinked or replaced.
RemoveFile(d, path) == [d EXCEPT ![path] = AbsentFile]
DropHandles(ts, path) ==
    [k \in DOMAIN ts |-> IF ts[k].handle = Some(path) THEN [ts[k] EXCEPT !.handle = None] ELSE ts[k]]

\* fs::rename(from, to): the file at `from` replaces the one at `to`; open handles follow
Rename(d, from, to) == [d EXCEPT ![to] = d[from], ![from] = AbsentFile]
MoveHandles(ts, from, to) ==
    [k \in DOMAIN ts |->
        IF ts[k].handle = Some(from) THEN [ts[k] EXCEPT !.handle = Some(to)]
        ELSE IF ts[k].handle = Some(to) THEN [ts[k] EXCEPT !.handle = None]
        ELSE ts[k]]

\* write_all(chunk) through a handle at position pos (append mode: at the end)
WriteAt(bytes, pos, b) ==
    IF pos < Len(bytes)
    THEN [bytes EXCEPT ![pos + 1] = b]
    ELSE bytes \o [i \in 1..(pos - Len(bytes)) |-> Hole] \o <<b>>
WriteChunk(d, task, b) ==
    IF task.handle = None THEN d
    ELSE LET path == task.handle[1]
             old == d[path].bytes
         IN [d EXCEPT ![path] = FileOf(IF task.status = "206" THEN old \o <<b>>
                                        ELSE WriteAt(old, task.pos, b))]

---------------------------------------------------------------------------
(* Runners and tasks *)

IdleRunner ==
    [pc |-> "idle", conc |-> 0, permits |-> 0,
     snapshot |-> [f \in {} |-> "u1"], todo |-> {}, ok_before |-> None]

\* no management operation in progress, none returned yet
IdleAdmin ==
    [reload |-> None, clean |-> None, last |-> None, writer |-> None]

\* the scheduler task as spawned: the immediate pass comes first
BootSched == [pc |-> "boot", interval_secs |-> None]

IdleTask ==
    [pc |-> "none", url |-> "", max_retry |-> 0, attempt |-> 0, old_meta |-> DefaultMeta,
     status |-> "", new_etag |-> None, last_modified |-> None, total |-> None,
     fetch_time |-> 0, rest |-> <<>>, pos |-> 0, handle |-> None, outcome |-> "",
     base_delay |-> 0, sleeps |-> <<>>, request |-> None, failure |-> "", events |-> <<>>]

EndedTask(outcome) == [IdleTask EXCEPT !.pc = "done", !.outcome = outcome]

\* what download_file keeps from one attempt to the next and to its return: its
\* arguments, the loop index, the sleeps taken, the last request sent, the last
\* attempt's error and the events reported so far
Carry(t, base) ==
    [base EXCEPT !.url = t.url, !.max_retry = t.max_retry, !.base_delay = t.base_delay,
                 !.attempt = t.attempt, !.sleeps = t.sleeps, !.request = t.request,
                 !.failure = t.failure, !.events = t.events]

\* the headers of a GET: Range (the offset) and the validators taken from a sidecar
Request(range, meta) ==
    Some([range |-> range, if_none_match |-> meta.etag,
          if_modified_since |-> meta.last_modified])

\* a backoff that does not grow
ConstantFactor(k) == 1

\* 2u64.pow(k): k is an attempt index, far below the 64 that would overflow
RECURSIVE Pow2(_)
Pow2(k) == IF k = 0 THEN 1 ELSE 2 * Pow2(k - 1)

\* a task that ends without giving its permit back
LeakPermit(rn, r) == rn

\* the task's future ends: _permit is dropped, whatever the outcome
ReleasePermit(rn, r) == [rn EXCEPT ![r].permits = rn[r].permits + 1]

\* the values serde fills in for the fields config.toml leaves out
DefaultConfig ==
    [interval_secs |-> 86400, storage_dir |-> <<"data">>, bind |-> "0.0.0.0:8080",
     admin |-> "0.0.0.0:25666", url |-> <<"l", "o", "c", "a", "l", "h", "o", "s", "t">>,
     proxy |-> None,
     download_concurrency |-> 4, download_retry |-> 3, retry_base_delay_ms |-> 1000]

\* the documents ConfigCenter::new reads: no bound is checked at load time
Configs ==
    {[DefaultConfig EXCEPT !.download_concurrency = c, !.download_retry = n] :
        c \in {0, 1, 2}, n \in {0, 1, 2}}
FileMapOf(S) == [f \in S |-> DefaultUrl(f)]
SmallFileSets == {{}, {<<"a", "bin">>}}
AllFileSets == SmallFileSets \cup {{<<"a", "bin">>, <<"a", "txt">>}, FileNames}

InitStatus ==
    [running |-> FALSE, start_time |-> None, last_sync |-> None, last_ok_sync |-> None,
     last_result |-> "Pending", total_files |-> 0, finished_files |-> 0, failed_files |-> 0,
     files |-> [k \in {} |-> FileProgress(0, None, FALSE, None)]]

\* the state after ConfigCenter::new over an empty storage_dir
InitOf(fileSets) ==
    /\ config \in Configs
    /\ files \in {FileMapOf(S) : S \in fileSets}
    /\ status = InitStatus
    /\ disk = [p \in DataPaths |-> AbsentFile]
    /\ metas = [p \in MetaPaths |-> AbsentMeta]
    /\ origin = [u \in Urls |-> 1]
    /\ runner = [r \in Runners |-> IdleRunner]
    /\ tasks = [k \in TaskIds |-> IdleTask]
    /\ sync_lock = 1
    /\ now = 1
    /\ budget = [passes |-> MaxPasses, updates |-> MaxOriginUpdates, calls |-> MaxAdminCalls]
    /\ docs = [config |-> Some(config), files |-> Some(files)]
    /\ admin = IdleAdmin
    /\ sched = BootSched

---------------------------------------------------------------------------
(* sync_once: one pass *)

\* sync_once up to and including sync_started; the scheduler takes its permit first,
\* trigger_sync calls sync_once directly
PassStart(r) ==
    /\ runner[r].pc = "idle"
    /\ budget.passes > 0
    /\ r = "sched" => (sync_lock = 1 /\ sched.pc \in {"boot", "due"})
    /\ admin.writer = None
    /\ runner' = [runner EXCEPT ![r] =
            [pc |-> "dispatch", conc |-> config.download_concurrency,
             permits |-> config.download_concurrency,
             snapshot |-> files, todo |-> DOMAIN files, ok_before |-> status.last_ok_sync]]
    /\ status' = sync_started(status, Cardinality(DOMAIN files), now)
    /\ sync_lock' = IF r = "sched" THEN 0 ELSE sync_lock
    /\ budget' = [budget EXCEPT !.passes = budget.passes - 1]
    /\ sched' = IF r = "sched" THEN [sched EXCEPT !.pc = "pass"] ELSE sched
    /\ UNCHANGED <<config, files, disk, metas, origin, tasks, now, docs, admin>>

\* one iteration of the dispatch loop: acquire_owned, then tokio::spawn
Dispatch(r, file) ==
    /\ runner[r].pc = "dispatch"
    /\ file \in runner[r].todo
    /\ runner[r].permits > 0
    /\ runner' = [runner EXCEPT ![r].permits = runner[r].permits - 1,
                                ![r].todo = runner[r].todo \ {file}]
    /\ tasks' = [tasks EXCEPT ![<<r, file>>] =
                    [IdleTask EXCEPT !.pc = "start", !.url = runner[r].snapshot[file]]]
    /\ UNCHANGED <<config, files, status, disk, metas, origin, sync_lock, now, budget, docs, admin, sched>>

\* a pass that ends by recording an unconditional success
PassFinishAlwaysOk(r) ==
    /\ runner[r].pc = "dispatch"
    /\ runner[r].todo = {}
    /\ \A f \in DOMAIN runner[r].snapshot : tasks[<<r, f>>].pc = "done"
    /\ status' = [status EXCEPT !.running = FALSE, !.last_sync = Some(now),
                                !.last_result = "Success", !.last_ok_sync = Some(now)]
    /\ now' = now + 1
    /\ runner' = [runner EXCEPT ![r] = IdleRunner]
    /\ tasks' = [k \in TaskIds |-> IF k[1] = r THEN IdleTask ELSE tasks[k]]
    /\ sync_lock' = IF r = "sched" THEN 1 ELSE sync_lock
    /\ sched' = IF r = "sched" THEN [pc |-> "loop", interval_secs |-> None] ELSE sched
    /\ UNCHANGED <<config, files, disk, metas, origin, budget, docs, admin>>

\* all tasks awaited: sync_finished, return Ok; the scheduler's permit is dropped
PassFinish(r) ==
    /\ runner[r].pc = "dispatch"
    /\ runner[r].todo = {}
    /\ \A f \in DOMAIN runner[r].snapshot : tasks[<<r, f>>].pc = "done"
    /\ status' = sync_finished(status, now)
    /\ now' = now + 1
    /\ runner' = [runner EXCEPT ![r] = IdleRunner]
    /\ tasks' = [k \in TaskIds |-> IF k[1] = r THEN IdleTask ELSE tasks[k]]
    /\ sync_lock' = IF r = "sched" THEN 1 ELSE sync_lock
    /\ sched' = IF r = "sched" THEN [pc |-> "loop", interval_secs |-> None] ELSE sched
    /\ UNCHANGED <<config, files, disk, metas, origin, budget, docs, admin>>

---------------------------------------------------------------------------
(* spawn_periodic_sync: the loop around the scheduler's passes *)

\* a loop that sleeps the interval the daemon started with
ReadIntervalAtBoot ==
    /\ sched.pc = "loop"
    /\ sched' = [pc |-> "sleep", interval_secs |-> Some(DefaultConfig.interval_secs)]
    /\ UNCHANGED <<config, files, status, disk, metas, origin, runner, tasks, sync_lock, now,
                   budget, docs, admin>>

\* the head of an iteration: the interval is read from the live configuration
ReadInterval ==
    /\ sched.pc = "loop"
    /\ admin.writer = None
    /\ sched' = [pc |-> "sleep", interval_secs |-> Some(config.interval_secs)]
    /\ UNCHANGED <<config, files, status, disk, metas, origin, runner, tasks, sync_lock, now,
                   budget, docs, admin>>

\* the sleep of the interval just read is over
Sleep ==
    /\ sched.pc = "sleep"
    /\ sched' = [sched EXCEPT !.pc = "due"]
    /\ UNCHANGED <<config, files, status, disk, metas, origin, runner, tasks, sync_lock, now,
                   budget, docs, admin>>

---------------------------------------------------------------------------
(* download_file: one task *)

\* a final error that gives up on the files the pass has not dispatched yet
FailAttemptAbortsPass(r, file, ts) ==
    LET k == <<r, file>>
        t == ts[k]
    IN IF t.attempt + 1 < t.max_retry
       THEN /\ tasks' = [ts EXCEPT ![k] =
                    [Carry(t, IdleTask) EXCEPT
                        !.pc = "attempt", !.attempt = t.attempt + 1,
                        !.sleeps = Append(t.sleeps, t.base_delay * Pow2(t.attempt))]]
            /\ status' = status
            /\ runner' = runner
       ELSE /\ tasks' = [ts EXCEPT ![k] =
                    [Carry(t, EndedTask("exhausted")) EXCEPT
                        !.events = Append(t.events, "Error")]]
            /\ status' = file_error(status, file, "error")
            /\ runner' = [ReleasePermit(runner, r) EXCEPT ![r].todo = {}]

\* an attempt of the body-transfer loop has failed, on the task table ts: back off and
\* retry, or after the last attempt emit Error and return Err
FailAttempt(r, file, ts) ==
    LET k == <<r, file>>
        t == ts[k]
    IN IF t.attempt + 1 < t.max_retry
       THEN /\ tasks' = [ts EXCEPT ![k] =
                    [Carry(t, IdleTask) EXCEPT
                        !.pc = "attempt", !.attempt = t.attempt + 1,
                        !.sleeps = Append(t.sleeps, t.base_delay * Pow2(t.attempt))]]
            /\ status' = status
            /\ runner' = runner
       ELSE /\ tasks' = [ts EXCEPT ![k] =
                    [Carry(t, EndedTask("exhausted")) EXCEPT
                        !.events = Append(t.events, "Error")]]
            /\ status' = file_error(status, file, "error")
            /\ runner' = ReleasePermit(runner, r)

\* the task reads a fresh config, then download_file up to the decision to probe
TaskStart(r, file) ==
    LET k == <<r, file>>
        old_meta == load_meta(metas, MetaPath(file))
        local_file_size == FileSize(disk, FilePath(file))
        probe == old_meta.total_size # None /\ old_meta.total_size[1] = local_file_size
    IN /\ tasks[k].pc = "start"
       /\ admin.writer = None
       /\ tasks' = [tasks EXCEPT ![k].pc = IF probe THEN "probe" ELSE "attempt",
                                 ![k].max_retry = config.download_retry,
                                 ![k].base_delay = config.retry_base_delay_ms,
                                 ![k].old_meta = IF probe THEN old_meta ELSE DefaultMeta]
       /\ UNCHANGED <<config, files, status, disk, metas, origin, runner, sync_lock, now, budget, docs, admin, sched>>

\* the answer to the conditional GET of the freshness probe
ProbeKinds == {"304", "200", "503", "err"}
Probe(r, file, kind) ==
    LET k == <<r, file>>
        t == tasks[k]
        sent == [t EXCEPT !.request = Request(None, t.old_meta)]
    IN /\ t.pc = "probe"
       /\ kind = "304" => t.old_meta.etag = Some(ETag(t.url, origin[t.url]))
       /\ CASE kind = "304" ->
                 /\ metas' = save_meta(metas, MetaPath(file),
                                       [t.old_meta EXCEPT !.fetched_at = Some(now)])
                 /\ status' = file_finished(status, file)
                 /\ tasks' = [tasks EXCEPT ![k] =
                        [Carry(sent, EndedTask("not_modified")) EXCEPT
                            !.events = Append(t.events, "Finished")]]
                 /\ runner' = ReleasePermit(runner, r)
            [] kind = "200" ->
                 /\ tasks' = [tasks EXCEPT ![k] =
                        [sent EXCEPT !.pc = "attempt", !.old_meta = DefaultMeta]]
                 /\ UNCHANGED <<metas, status, runner>>
            [] OTHER ->
                 /\ tasks' = [tasks EXCEPT ![k] =
                        Carry([sent EXCEPT !.failure = kind], EndedTask("probe_failed"))]
                 /\ runner' = ReleasePermit(runner, r)
                 /\ UNCHANGED <<metas, status>>
       /\ UNCHANGED <<config, files, disk, origin, sync_lock, now, budget, docs, admin, sched>>

\* `for attempt in 0..max_retry` with max_retry = 0: the loop body never runs
Unreachable(r, file) ==
    LET k == <<r, file>>
    IN /\ tasks[k].pc = "attempt"
       /\ tasks[k].attempt >= tasks[k].max_retry
       /\ tasks' = [tasks EXCEPT ![k] = Carry(tasks[k], EndedTask("panic"))]
       /\ runner' = ReleasePermit(runner, r)
       /\ UNCHANGED <<config, files, status, disk, metas, origin, sync_lock, now, budget, docs, admin, sched>>

\* a resume that is asked for only when the sidecar records a larger total_size
ResumeIfRecorded(downloaded, total_size) ==
    /\ downloaded > 0
    /\ (IF total_size = None THEN FALSE ELSE downloaded < total_size[1])

\* whether the request of an attempt carries Range: bytes=<downloaded>-
Resume(downloaded, total_size) ==
    /\ downloaded > 0
    /\ (IF total_size = None THEN TRUE ELSE downloaded < total_size[1])

\* a check that lets a 206 without an ETag header pass
ETagMismatchIfBoth(partial, old_etag, new_etag) ==
    partial /\ old_etag # None /\ new_etag # None /\ old_etag # new_etag

\* the strong ETag check of a resumed transfer
ETagMismatch(partial, old_etag, new_etag) ==
    partial /\ old_etag # None /\ old_etag # new_etag

\* one attempt, from load_meta to the opening of the temp file, on the origin's answer;
\* "206n" is a 206 that carries no ETag header
AttemptKinds == {"err", "503", "304", "416", "206", "206n", "200"}
Attempt(r, file, kind) ==
    LET k == <<r, file>>
        t == tasks[k]
        tmp_path == TmpPath(file)
        meta_path == MetaPath(file)
        old_meta == load_meta(metas, meta_path)
        downloaded == FileSize(disk, tmp_path)
        range == Resume(downloaded, old_meta.total_size)
        ver == origin[t.url]
        len == BodyLen(t.url, ver)
        new_etag == IF kind = "206n" THEN None ELSE Some(ETag(t.url, ver))
        partial == kind \in {"206", "206n"}
        request == Request(IF range THEN Some(downloaded) ELSE None, old_meta)
        failed(ts, e) == [ts EXCEPT ![k].request = request, ![k].failure = e]
        streaming(st, total, rest, pos) ==
            [t EXCEPT !.pc = "stream", !.status = st, !.new_etag = new_etag,
                      !.last_modified = Some(ver), !.total = total, !.fetch_time = now,
                      !.rest = rest, !.pos = pos, !.handle = Some(tmp_path),
                      !.request = request, !.events = Append(t.events, "Started")]
    IN /\ t.pc = "attempt"
       /\ t.attempt < t.max_retry
       /\ kind = "304" => old_meta.etag = new_etag
       /\ kind = "416" => range /\ downloaded >= len
       /\ partial => range /\ downloaded < len
       /\ CASE kind = "416" ->
                 /\ disk' = RemoveFile(disk, tmp_path)
                 /\ metas' = [metas EXCEPT ![meta_path] = AbsentMeta]
                 /\ FailAttempt(r, file, failed(DropHandles(tasks, tmp_path), "416"))
            [] ETagMismatch(partial, old_meta.etag, new_etag) ->
                 /\ disk' = RemoveFile(disk, tmp_path)
                 /\ metas' = metas
                 /\ FailAttempt(r, file, failed(DropHandles(tasks, tmp_path), "etag"))
            [] partial /\ ~ETagMismatch(partial, old_meta.etag, new_etag) ->
                 /\ status' = file_started(status, file, Some((len - downloaded) + downloaded))
                 /\ tasks' = [tasks EXCEPT ![k] =
                        streaming("206", Some((len - downloaded) + downloaded),
                                  SubSeq(Body(t.url, ver), downloaded + 1, len), downloaded)]
                 /\ UNCHANGED <<disk, metas, runner>>
            [] kind = "200" ->
                 /\ status' = file_started(status, file, Some(len))
                 /\ disk' = [disk EXCEPT ![tmp_path] = FileOf(<<>>)]
                 /\ tasks' = [tasks EXCEPT ![k] = streaming("200", Some(len), Body(t.url, ver), 0)]
                 /\ UNCHANGED <<metas, runner>>
            [] OTHER ->
                 /\ FailAttempt(r, file, failed(tasks, kind))
                 /\ UNCHANGED <<disk, metas>>
       /\ UNCHANGED <<config, files, origin, sync_lock, now, budget, docs, admin, sched>>

\* one chunk of the body: write_all, then the Progress event
StreamChunk(r, file) ==
    LET k == <<r, file>>
        t == tasks[k]
    IN /\ t.pc = "stream"
       /\ t.rest # <<>>
       /\ disk' = WriteChunk(disk, t, Head(t.rest))
       /\ tasks' = [tasks EXCEPT ![k].rest = Tail(t.rest), ![k].pos = t.pos + 1,
                                 ![k].events = Append(t.events, "Progress")]
       /\ status' = file_progress(status, file, t.pos + 1)
       /\ UNCHANGED <<config, files, metas, origin, runner, sync_lock, now, budget, docs, admin, sched>>

\* the body stream yields an error
StreamError(r, file) ==
    LET k == <<r, file>>
    IN /\ tasks[k].pc = "stream"
       /\ tasks[k].rest # <<>>
       /\ FailAttempt(r, file, [tasks EXCEPT ![k].failure = "stream"])
       /\ UNCHANGED <<config, files, disk, metas, origin, sync_lock, now, budget, docs, admin, sched>>

\* end of the body: flush, rename tmp -> file, save_meta, the Finished event
Finish(r, file) ==
    LET k == <<r, file>>
        t == tasks[k]
        tmp_path == TmpPath(file)
        final_meta == [etag |-> t.new_etag, last_modified |-> t.last_modified,
                       fetched_at |-> Some(t.fetch_time), total_size |-> t.total]
    IN /\ t.pc = "stream"
       /\ t.rest = <<>>
       /\ IF disk[tmp_path].present
          THEN /\ disk' = Rename(disk, tmp_path, FilePath(file))
               /\ metas' = save_meta(metas, MetaPath(file), final_meta)
               /\ status' = file_finished(status, file)
               /\ tasks' = [MoveHandles(tasks, tmp_path, FilePath(file)) EXCEPT ![k] =
                      [Carry(t, EndedTask("ok")) EXCEPT !.events = Append(t.events, "Finished")]]
               /\ runner' = ReleasePermit(runner, r)
          ELSE /\ FailAttempt(r, file, [tasks EXCEPT ![k].failure = "rename"])
               /\ UNCHANGED <<disk, metas>>
       /\ UNCHANGED <<config, files, origin, sync_lock, now, budget, docs, admin, sched>>

---------------------------------------------------------------------------
(* The environment: the origin and the configuration documents *)

\* an origin publishes a new version of a url
OriginUpdate(url) ==
    /\ budget.updates > 0
    /\ origin[url] = 1
    /\ origin' = [origin EXCEPT ![url] = 2]
    /\ budget' = [budget EXCEPT !.updates = budget.updates - 1]
    /\ UNCHANGED <<config, files, status, disk, metas, runner, tasks, sync_lock, now, docs, admin, sched>>

\* every step sync_once and its tasks can take for the runners rs
SyncStep(rs) ==
    \/ \E r \in rs : PassStart(r)
    \/ \E r \in rs, f \in FileNames : Dispatch(r, f)
    \/ \E r \in rs : PassFinish(r)
    \/ \E r \in rs, f \in FileNames : TaskStart(r, f)
    \/ \E r \in rs, f \in FileNames, kind \in ProbeKinds : Probe(r, f, kind)
    \/ \E r \in rs, f \in FileNames : Unreachable(r, f)
    \/ \E r \in rs, f \in FileNames, kind \in AttemptKinds : Attempt(r, f, kind)
    \/ \E r \in rs, f \in FileNames : StreamChunk(r, f)
    \/ \E r \in rs, f \in FileNames : StreamError(r, f)
    \/ \E r \in rs, f \in FileNames : Finish(r, f)
    \/ "sched" \in rs /\ ReadInterval
    \/ "sched" \in rs /\ Sleep

\* the daemon with its management plane: the scheduler and trigger_sync both call
\* sync_once, the origins publish new versions
Init == InitOf(SmallFileSets)
Next == SyncStep(Runners) \/ \E u \in Urls : OriginUpdate(u)
Spec == Init /\ [][Next]_vars

\* the scheduler alone (trigger_sync is never called), over file maps of up to three
\* names; the three-name map is run with at most one attempt per file
InitSched ==
    /\ InitOf(AllFileSets)
    /\ Cardinality(DOMAIN files) = Cardinality(FileNames) => config.download_retry <= 1
NextSched == SyncStep({"sched"})
SpecSched == InitSched /\ [][NextSched]_vars

\* the scheduler alone under the runtime's scheduling: a step that can be taken is taken
InitFair == InitOf(SmallFileSets \cup {{<<"a", "bin">>, <<"b", "bin">>}})
FairSpec == InitFair /\ [][NextSched]_vars /\ WF_vars(NextSched)

---------------------------------------------------------------------------
(* Management core: update_config *)

\* the limits update_config checks
MinIntervalSecs == 100
MinConcurrency == 1
MaxConcurrency == 64
MaxRetry == 10
MinRetryDelayMs == 10
MaxRetryDelayMs == 60000

\* a string whose characters a check looks at is the sequence of its characters
Contains(s, pat) ==
    \E i \in 1..(Len(s) - Len(pat) + 1) : SubSeq(s, i, i + Len(pat) - 1) = pat

\* str::split: the pieces of s between the occurrences of pat
RECURSIVE Split(_, _)
Split(s, pat) ==
    IF ~Contains(s, pat)
    THEN <<s>>
    ELSE LET i == CHOOSE i \in 1..(Len(s) - Len(pat) + 1) :
                      /\ SubSeq(s, i, i + Len(pat) - 1) = pat
                      /\ \A j \in 1..(i - 1) : SubSeq(s, j, j + Len(pat) - 1) # pat
         IN <<SubSeq(s, 1, i - 1)>> \o Split(SubSeq(s, i + Len(pat), Len(s)), pat)

\* Path::is_absolute: a path is the sequence of its components, the root first
IsAbsolute(dir) == Len(dir) > 0 /\ dir[1] = "/"
\* the paths that exist on the host and are not directories
NonDirs == {<<"/", "etc", "hosts">>}
\* the addresses to_socket_addrs resolves on the host
SocketAddrs == {"0.0.0.0:8080", "0.0.0.0:25666", "0.0.0.0:80", "0.0.0.0:81"}
ProxySchemes ==
    {<<"h", "t", "t", "p">>, <<"h", "t", "t", "p", "s">>, <<"s", "o", "c", "k", "s", "5">>}

\* UpdateConfigInput with every field absent
AbsentInput ==
    [interval_secs |-> None, storage_dir |-> None, url |-> None, bind |-> None,
     admin |-> None, proxy |-> None, download_concurrency |-> None,
     download_retry |-> None, retry_base_delay_ms |-> None]

\* the check of the proxy field alone: never reached for None and Some(None)
ProxyOk(proxy) ==
    LET parts == Split(proxy, <<":", "/", "/">>)
    IN IF Len(parts) # 2 THEN FALSE
       ELSE IF parts[1] \notin ProxySchemes THEN FALSE
       ELSE Contains(parts[2], <<":">>)

\* a validation that looks at the first field only
ValidateIntervalOnly(input) ==
    IF input.interval_secs # None /\ input.interval_secs[1] < MinIntervalSecs
    THEN "InvalidArgument"
    ELSE "Ok"

\* the validation block of update_config: the first check that fails returns
Validate(input) ==
    IF input.interval_secs # None /\ input.interval_secs[1] < MinIntervalSecs
    THEN "InvalidArgument"
    ELSE IF input.storage_dir # None /\ ~IsAbsolute(input.storage_dir[1])
    THEN "InvalidArgument"
    ELSE IF input.storage_dir # None /\ input.storage_dir[1] \in NonDirs
    THEN "InvalidArgument"
    ELSE IF input.url # None /\ (\/ input.url[1] = <<>>
                                 \/ Contains(input.url[1], <<":", "/", "/">>)
                                 \/ Contains(input.url[1], <<"/">>)
                                 \/ Contains(input.url[1], <<" ">>))
    THEN "InvalidArgument"
    ELSE IF input.bind # None /\ input.bind[1] \notin SocketAddrs
    THEN "InvalidArgument"
    ELSE IF input.admin # None /\ input.admin[1] \notin SocketAddrs
    THEN "InvalidArgument"
    ELSE IF input.proxy # None /\ input.proxy[1] # None /\ ~ProxyOk(input.proxy[1][1])
    THEN "InvalidArgument"
    ELSE IF input.download_concurrency # None
            /\ ~(MinConcurrency <= input.download_concurrency[1]
                 /\ input.download_concurrency[1] <= MaxConcurrency)
    THEN "InvalidArgument"
    ELSE IF input.download_retry # None /\ input.download_retry[1] > MaxRetry
    THEN "InvalidArgument"
    ELSE IF input.retry_base_delay_ms # None
            /\ ~(MinRetryDelayMs <= input.retry_base_delay_ms[1]
                 /\ input.retry_base_delay_ms[1] <= MaxRetryDelayMs)
    THEN "InvalidArgument"
    ELSE "Ok"

\* the closure update_config hands to the configuration center
ApplyConfigInput(cfg, input) ==
    [interval_secs |->
        IF input.interval_secs # None THEN input.interval_secs[1] ELSE cfg.interval_secs,
     storage_dir |->
        IF input.storage_dir # None THEN input.storage_dir[1] ELSE cfg.storage_dir,
     url |-> IF input.url # None THEN input.url[1] ELSE cfg.url,
     bind |-> IF input.bind # None THEN input.bind[1] ELSE cfg.bind,
     admin |-> IF input.admin # None THEN input.admin[1] ELSE cfg.admin,
     proxy |-> IF input.proxy # None THEN input.proxy[1] ELSE cfg.proxy,
     download_concurrency |->
        IF input.download_concurrency # None THEN input.download_concurrency[1]
                                             ELSE cfg.download_concurrency,
     download_retry |->
        IF input.download_retry # None THEN input.download_retry[1] ELSE cfg.download_retry,
     retry_base_delay_ms |->
        IF input.retry_base_delay_ms # None THEN input.retry_base_delay_ms[1]
                                            ELSE cfg.retry_base_delay_ms]

\* what a mutator closure returns: Ok or Err, and the document as it left it
Mutated(ok, value) == [ok |-> ok, value |-> value]

\* a center that lets the mutator work on the live document
UpdateInPlace(live, persisted, mutated, persist_ok) ==
    [live |-> mutated.value,
     persisted |-> IF mutated.ok /\ persist_ok THEN Some(mutated.value) ELSE persisted,
     result |-> IF mutated.ok /\ persist_ok THEN "Ok" ELSE "Internal"]

\* ConfigCenter::update_config / update_files: the mutator works on a clone, the clone is
\* persisted, and only then published; an error of either step drops the clone
UpdateDocument(live, persisted, mutated, persist_ok) ==
    IF mutated.ok /\ persist_ok
    THEN [live |-> mutated.value, persisted |-> Some(mutated.value), result |-> "Ok"]
    ELSE [live |-> live, persisted |-> persisted, result |-> "Internal"]

\* the write side of the config lock is free: no pass and no clean_unused_files holds a
\* read guard
ConfigWritable ==
    /\ \A r \in Runners : runner[r].pc = "idle"
    /\ admin.clean = None

\* the record of the management call that has just returned
Returned(op, via, request, result, removed) ==
    Some([seq |-> IF admin.last = None THEN 1 ELSE admin.last[1].seq + 1, op |-> op,
          via |-> via, request |-> request, result |-> result, removed |-> removed])

(* The transport adapters *)

Transports == {"grpc", "http"}

\* a request on the wire with every field left out
AbsentBody ==
    [AbsentInput EXCEPT !.proxy = [kind |-> "missing", s |-> <<>>]]

\* decoding the proxy field of a body: prost gives Option<String>, serde's derive gives
\* Option<Option<String>> and takes a JSON null for a missing field
DecodeProxy(via, p) ==
    IF via = "grpc"
    THEN IF p.kind = "string" THEN Some(p.s) ELSE None
    ELSE IF p.kind = "string" THEN Some(Some(p.s)) ELSE None

\* impl From<UpdateConfigRequest> for UpdateConfigInput, of each adapter
InputOf(via, body) ==
    LET proxy == DecodeProxy(via, body.proxy)
    IN [body EXCEPT !.proxy =
            IF via = "grpc"
            THEN IF proxy = None THEN None
                 ELSE IF proxy[1] = <<>> THEN Some(None) ELSE Some(Some(proxy[1]))
            ELSE proxy]

\* ManagementCore::update_config, called by a transport with the body it received
update_config(via, body, persist_ok) ==
    LET input == InputOf(via, body)
        checked == Validate(input)
        out == UpdateDocument(config, docs.config,
                              Mutated(TRUE, ApplyConfigInput(config, input)), persist_ok)
    IN /\ budget.calls > 0
       /\ ConfigWritable
       /\ via = "grpc" => body.proxy.kind # "null"
       /\ IF checked # "Ok"
          THEN /\ admin' = [admin EXCEPT !.last = Returned("update_config", via, body, checked, {})]
               /\ UNCHANGED <<config, docs>>
          ELSE /\ config' = out.live
               /\ docs' = [docs EXCEPT !.config = out.persisted]
               /\ admin' = [admin EXCEPT !.last =
                                Returned("update_config", via, body, out.result, {})]
       /\ budget' = [budget EXCEPT !.calls = budget.calls - 1]
       /\ UNCHANGED <<files, status, disk, metas, origin, runner, tasks, sync_lock, now, sched>>

(* The configuration lock under contention *)

\* a writer of the configuration (the write of update_config or of reload_configs, with
\* the value it is about to store) reaches config.write().await while a read guard is
\* held: it waits in the queue of the lock
QueueWriter(op, new_cfg) ==
    /\ budget.calls > 0
    /\ admin.writer = None
    /\ admin.reload = None
    /\ ~ConfigWritable
    /\ admin' = [admin EXCEPT !.writer = Some([op |-> op, new_cfg |-> new_cfg])]
    /\ budget' = [budget EXCEPT !.calls = budget.calls - 1]
    /\ UNCHANGED <<config, files, status, disk, metas, origin, runner, tasks, sync_lock, now,
                   docs, sched>>

\* the last read guard is gone: the queued writer is granted the lock and stores its
\* value; update_config persists it and returns, reload_configs goes on to write files
GrantWriter ==
    /\ admin.writer # None
    /\ ConfigWritable
    /\ config' = admin.writer[1].new_cfg
    /\ IF admin.writer[1].op = "update_config"
       THEN /\ docs' = [docs EXCEPT !.config = Some(admin.writer[1].new_cfg)]
            /\ admin' = [admin EXCEPT !.writer = None,
                                      !.last = Returned("update_config", "grpc", <<>>, "Ok", {})]
       ELSE /\ docs' = docs
            /\ admin' = [admin EXCEPT !.writer = None,
                                      !.reload = Some([new_files |-> docs.files[1],
                                                       old_config |-> config,
                                                       old_files |-> files])]
    /\ UNCHANGED <<files, status, disk, metas, origin, runner, tasks, sync_lock, now, budget,
                   sched>>

(* update_config as a function of its input: one call on a freshly started daemon *)

ValidProxy == <<"h", "t", "t", "p", ":", "/", "/", "p", ":", "1">>

\* the values a body can give each field: inside, on and outside every limit
FieldValues ==
    ({"interval_secs"} \X {99, 100})
    \cup ({"storage_dir"} \X {<<"/", "srv">>, <<"srv">>, <<"/", "etc", "hosts">>})
    \cup ({"url"} \X {<<"h">>, <<>>, <<"s", ":", "/", "/", "h">>, <<"a", "/", "b">>,
                      <<"a", " ", "b">>})
    \cup ({"bind"} \X {"0.0.0.0:80", "nowhere"})
    \cup ({"admin"} \X {"0.0.0.0:81", "nowhere"})
    \cup ({"proxy"} \X ({[kind |-> "null", s |-> <<>>]} \cup
                        {[kind |-> "string", s |-> s] :
                            s \in {ValidProxy, <<>>, <<"p", ":", "1">>,
                                   <<"f", "t", "p", ":", "/", "/", "p", ":", "1">>,
                                   <<"h", "t", "t", "p", ":", "/", "/", "p">>}}))
    \cup ({"download_concurrency"} \X {0, 1, 64, 65})
    \cup ({"download_retry"} \X {10, 11})
    \cup ({"retry_base_delay_ms"} \X {9, 10, 60000, 60001})

\* the body with one more field given
With(body, fv) ==
    [body EXCEPT ![fv[1]] = IF fv[1] = "proxy" THEN fv[2] ELSE Some(fv[2])]

\* the bodies that give no field, one field, or two different fields
Bodies ==
    {AbsentBody}
    \cup {With(AbsentBody, fv) : fv \in FieldValues}
    \cup {With(With(AbsentBody, p[1]), p[2]) :
            p \in {q \in FieldValues \X FieldValues : q[1][1] # q[2][1]}}

\* the state after ConfigCenter::new for the configuration cfg and the file map fm, over
\* a storage_dir holding the payloads d and the sidecars m
Boot(cfg, fm, d, m) ==
    /\ config = cfg
    /\ files = fm
    /\ status = InitStatus
    /\ disk = d
    /\ metas = m
    /\ origin = [u \in Urls |-> 1]
    /\ runner = [r \in Runners |-> IdleRunner]
    /\ tasks = [k \in TaskIds |-> IdleTask]
    /\ sync_lock = 1
    /\ now = 1
    /\ budget = [passes |-> MaxPasses, updates |-> MaxOriginUpdates, calls |-> MaxAdminCalls]
    /\ docs = [config |-> Some(cfg), files |-> Some(fm)]
    /\ admin = IdleAdmin
    /\ sched = BootSched

InitConfig ==
    \E cfg \in {DefaultConfig, [DefaultConfig EXCEPT !.proxy = Some(ValidProxy)]} :
        Boot(cfg, FileMapOf({<<"a", "bin">>}), [p \in DataPaths |-> AbsentFile],
             [p \in MetaPaths |-> AbsentMeta])
NextConfig ==
    \E via \in Transports, body \in Bodies, persist_ok \in BOOLEAN :
        admin.last = None /\ update_config(via, body, persist_ok)
SpecConfig == InitConfig /\ [][NextConfig]_vars

---------------------------------------------------------------------------
(* Management core: update_files *)

MaxListLen == 2         \* entries in each list of an update_files input

Range(seq) == {seq[i] : i \in DOMAIN seq}
\* the filename that is the empty string
EmptyName == <<"", "">>
NoFiles == FileMapOf({})

\* the insert loop of the closure: it returns at the first entry with an empty filename
\* or path, leaving the entries before it inserted
RECURSIVE InsertAll(_, _)
InsertAll(fm, items) ==
    IF items = <<>>
    THEN Mutated(TRUE, fm)
    ELSE IF Head(items).filename = EmptyName \/ Head(items).path = ""
    THEN Mutated(FALSE, fm)
    ELSE InsertAll(Upsert(fm, Head(items).filename, Head(items).path), Tail(items))

\* the remove loop of the closure
RemoveAll(fm, names) == [f \in DOMAIN fm \ Range(names) |-> fm[f]]

\* a merge that inserts add_files before it removes remove_files
ApplyFilesInputAddFirst(fm, input) ==
    IF input.replace_all
    THEN InsertAll(NoFiles, input.new_files)
    ELSE LET added == InsertAll(fm, input.add_files)
         IN Mutated(added.ok, RemoveAll(added.value, input.remove_files))

\* the closure update_files hands to the configuration center
ApplyFilesInput(fm, input) ==
    IF input.replace_all
    THEN InsertAll(NoFiles, input.new_files)
    ELSE InsertAll(RemoveAll(fm, input.remove_files), input.add_files)

\* ManagementCore::update_files
update_files(input, persist_ok) ==
    LET out == UpdateDocument(files, docs.files, ApplyFilesInput(files, input), persist_ok)
    IN /\ budget.calls > 0
       /\ files' = out.live
       /\ docs' = [docs EXCEPT !.files = out.persisted]
       /\ admin' = [admin EXCEPT !.last = Returned("update_files", "core", input, out.result, {})]
       /\ budget' = [budget EXCEPT !.calls = budget.calls - 1]
       /\ UNCHANGED <<config, status, disk, metas, origin, runner, tasks, sync_lock, now, sched>>

(* update_files as a function of its input: one call on a freshly started daemon *)

Lists(S) == UNION {[1..n -> S] : n \in 0..MaxListLen}
Items ==
    {[filename |-> n, path |-> u] : n \in {<<"a", "bin">>, <<"b", "bin">>}, u \in {"u1", "u3"}}
    \cup {[filename |-> EmptyName, path |-> "u1"], [filename |-> <<"a", "bin">>, path |-> ""]}
\* every list in the lists the mode reads, a few in the lists it ignores
FilesInputs ==
    {[replace_all |-> TRUE, new_files |-> l, add_files |-> a, remove_files |-> rm] :
        l \in Lists(Items),
        a \in {<<>>, <<[filename |-> <<"b", "bin">>, path |-> "u3"]>>},
        rm \in {<<>>, <<<<"a", "bin">>>>}}
    \cup
    {[replace_all |-> FALSE, new_files |-> l, add_files |-> a, remove_files |-> rm] :
        l \in {<<>>, <<[filename |-> <<"b", "bin">>, path |-> "u3"]>>},
        a \in Lists(Items),
        rm \in Lists({<<"a", "bin">>, <<"b", "bin">>})}

InitFiles ==
    \E S \in {{}, {<<"a", "bin">>}, {<<"a", "bin">>, <<"b", "bin">>}} :
        Boot(DefaultConfig, FileMapOf(S), [p \in DataPaths |-> AbsentFile],
             [p \in MetaPaths |-> AbsentMeta])
NextFiles ==
    \E input \in FilesInputs, persist_ok \in BOOLEAN :
        admin.last = None /\ update_files(input, persist_ok)
SpecFiles == InitFiles /\ [][NextFiles]_vars

---------------------------------------------------------------------------
(* Configuration center: reload_configs *)

\* a reload that publishes each document as soon as it has parsed it
ReloadBeginSwapsEarly(mkdir_ok) ==
    /\ budget.calls > 0
    /\ admin.reload = None
    /\ IF docs.config = None
       THEN /\ admin' = [admin EXCEPT !.last =
                            Returned("reload_config", "core", <<>>, "Internal", {})]
            /\ UNCHANGED config
       ELSE IF docs.files = None \/ ~mkdir_ok
       THEN /\ ConfigWritable
            /\ config' = docs.config[1]
            /\ admin' = [admin EXCEPT !.last =
                            Returned("reload_config", "core", <<>>, "Internal", {})]
       ELSE /\ ConfigWritable
            /\ config' = docs.config[1]
            /\ admin' = [admin EXCEPT !.reload =
                            Some([new_files |-> docs.files[1], old_config |-> config,
                                  old_files |-> files])]
    /\ budget' = [budget EXCEPT !.calls = budget.calls - 1]
    /\ UNCHANGED <<files, status, disk, metas, origin, runner, tasks, sync_lock, now, docs, sched>>

\* reload_configs up to and including the write of config: both documents are read and
\* parsed and storage_dir is created before anything is written; old_config and
\* old_files keep the documents this reload replaces
ReloadBegin(mkdir_ok) ==
    /\ budget.calls > 0
    /\ admin.reload = None
    /\ IF docs.config = None \/ docs.files = None \/ ~mkdir_ok
       THEN /\ admin' = [admin EXCEPT !.last =
                            Returned("reload_config", "core", <<>>, "Internal", {})]
            /\ UNCHANGED config
       ELSE /\ ConfigWritable
            /\ config' = docs.config[1]
            /\ admin' = [admin EXCEPT !.reload =
                            Some([new_files |-> docs.files[1], old_config |-> config,
                                  old_files |-> files])]
    /\ budget' = [budget EXCEPT !.calls = budget.calls - 1]
    /\ UNCHANGED <<files, status, disk, metas, origin, runner, tasks, sync_lock, now, docs, sched>>

\* the write of files, and the return
ReloadEnd ==
    /\ admin.reload # None
    /\ files' = admin.reload[1].new_files
    /\ admin' = [admin EXCEPT !.reload = None,
                              !.last = Returned("reload_config", "core", <<>>, "Ok", {})]
    /\ UNCHANGED <<config, status, disk, metas, origin, runner, tasks, sync_lock, now, budget,
                   docs, sched>>

\* the operator edits a document on disk, or leaves it unparsable (None)
EditDocument(which, doc) ==
    /\ budget.calls > 0
    /\ docs[which] # doc
    /\ docs' = [docs EXCEPT ![which] = doc]
    /\ budget' = [budget EXCEPT !.calls = budget.calls - 1]
    /\ UNCHANGED <<config, files, status, disk, metas, origin, runner, tasks, sync_lock, now,
                   admin, sched>>

---------------------------------------------------------------------------
(* Management core: clean_unused_files *)

\* the name of a directory entry
NameOf(path) == path[1] \o "." \o path[2]

\* the names the file map declares
DeclaredNames(fm) == {NameOf(f) : f \in DOMAIN fm}

\* valid_files: the values of the file map
valid_files(fm) == {fm[f] : f \in DOMAIN fm}

\* the directory the model keeps the contents of
StorageDir == DefaultConfig.storage_dir

\* the config read guard is taken
CleanBegin ==
    /\ budget.calls > 0
    /\ admin.clean = None
    /\ admin.writer = None
    /\ admin' = [admin EXCEPT !.clean = Some([config |-> config])]
    /\ budget' = [budget EXCEPT !.calls = budget.calls - 1]
    /\ UNCHANGED <<config, files, status, disk, metas, origin, runner, tasks, sync_lock, now,
                   docs, sched>>

\* the files read guard is taken, the directory is scanned and every regular file whose
\* name is not in valid_files is removed; both guards are dropped at the return
CleanRun ==
    LET cfg == admin.clean[1].config
        valid == valid_files(files)
        unused == {p \in DataPaths : disk[p].present /\ NameOf(p) \notin valid}
                  \cup {p \in MetaPaths : metas[p].present /\ NameOf(p) \notin valid}
        seen == [config |-> cfg, files |-> files]
    IN /\ admin.clean # None
       /\ IF cfg.storage_dir # StorageDir
          THEN /\ admin' = [admin EXCEPT !.clean = None,
                               !.last = Returned("clean_unused_files", "core", seen,
                                                 "Internal", {})]
               /\ UNCHANGED <<disk, metas, tasks>>
          ELSE /\ disk' = [p \in DataPaths |-> IF p \in unused THEN AbsentFile ELSE disk[p]]
               /\ metas' = [p \in MetaPaths |-> IF p \in unused THEN AbsentMeta ELSE metas[p]]
               /\ tasks' = [k \in TaskIds |->
                               IF tasks[k].handle # None /\ tasks[k].handle[1] \in unused
                               THEN [tasks[k] EXCEPT !.handle = None] ELSE tasks[k]]
               /\ admin' = [admin EXCEPT !.clean = None,
                               !.last = Returned("clean_unused_files", "core", seen, "Ok",
                                                 {NameOf(p) : p \in unused})]
       /\ UNCHANGED <<config, files, status, origin, runner, sync_lock, now, budget, docs, sched>>

---------------------------------------------------------------------------
(* The management plane of a daemon whose scheduler is between two passes *)

\* a storage_dir as an earlier run left it: empty, or holding a.bin with its sidecar
MirroredDisk == [p \in DataPaths |-> IF p = <<"a", "bin">> THEN FileOf(Body("u1", 1)) ELSE AbsentFile]
MirroredMetas ==
    [p \in MetaPaths |->
        IF p = <<"a", "meta">>
        THEN MetaFileOf([etag |-> Some(ETag("u1", 1)), last_modified |-> Some(1),
                         fetched_at |-> Some(1), total_size |-> Some(2)])
        ELSE AbsentMeta]
Leftovers ==
    {[disk |-> [p \in DataPaths |-> AbsentFile], metas |-> [p \in MetaPaths |-> AbsentMeta]],
     [disk |-> MirroredDisk, metas |-> MirroredMetas]}

\* file maps of one name: mirrored from an origin, or from a url spelled like a file name
AdminMaps == {FileMapOf({<<"a", "bin">>}), [f \in {<<"a", "bin">>} |-> "a.bin"]}

AdminBodies ==
    {With(AbsentBody, <<"download_concurrency", 2>>),
     With(AbsentBody, <<"download_concurrency", 0>>)}
AdminFilesInputs ==
    LET good == [filename |-> <<"b", "bin">>, path |-> "a.bin"]
        bad == [filename |-> EmptyName, path |-> "u1"]
    IN {[replace_all |-> m, new_files |-> l, add_files |-> l, remove_files |-> <<<<"a", "bin">>>>] :
            m \in BOOLEAN, l \in {<<good>>, <<good, bad>>, <<bad, good>>}}
AdminDocs ==
    [config |-> {None, Some([DefaultConfig EXCEPT !.download_concurrency = 2])},
     files |-> {None, Some(FileMapOf({<<"b", "bin">>}))}]

InitAdmin ==
    \E fm \in AdminMaps, dir \in Leftovers : Boot(DefaultConfig, fm, dir.disk, dir.metas)
NextAdmin ==
    \/ \E body \in AdminBodies, persist_ok \in BOOLEAN : update_config("grpc", body, persist_ok)
    \/ \E input \in AdminFilesInputs, persist_ok \in BOOLEAN : update_files(input, persist_ok)
    \/ \E mkdir_ok \in BOOLEAN : ReloadBegin(mkdir_ok)
    \/ ReloadEnd
    \/ \E which \in {"config", "files"} : \E doc \in AdminDocs[which] : EditDocument(which, doc)
    \/ CleanBegin
    \/ CleanRun
SpecAdmin == InitAdmin /\ [][NextAdmin]_vars

---------------------------------------------------------------------------
(* The scheduler while the interval is being reconfigured *)

LoopBodies ==
    {With(AbsentBody, <<"interval_secs", 100>>), With(AbsentBody, <<"interval_secs", 200>>),
     With(AbsentBody, <<"download_retry", 0>>)}

InitLoop ==
    Boot([DefaultConfig EXCEPT !.download_concurrency = 1, !.download_retry = 1],
         FileMapOf({<<"a", "bin">>}), [p \in DataPaths |-> AbsentFile],
         [p \in MetaPaths |-> AbsentMeta])
NextLoop ==
    \/ SyncStep({"sched"})
    \/ \E body \in LoopBodies, persist_ok \in BOOLEAN : update_config("grpc", body, persist_ok)
SpecLoop == InitLoop /\ [][NextLoop]_vars

\* the download of a file followed through its retries: the scheduler's passes, one
\* task at a time, while the origin publishes a new version; over a one-name map with
\* up to MaxAttempts attempts, over a.bin and a.txt with one attempt
InitFile ==
    \E n \in {0, 1, MaxAttempts},
       S \in {{<<"a", "bin">>}, {<<"b", "bin">>}, {<<"a", "bin">>, <<"a", "txt">>}} :
        /\ Cardinality(S) > 1 <=> n = 1
        /\ Boot([DefaultConfig EXCEPT !.download_concurrency = 1, !.download_retry = n],
                FileMapOf(S), [p \in DataPaths |-> AbsentFile],
                [p \in MetaPaths |-> AbsentMeta])
NextFile == SyncStep({"sched"}) \/ \E u \in Urls : OriginUpdate(u)
SpecFile == InitFile /\ [][NextFile]_vars

\* the same passes started over a directory left by an earlier run: the payload a.bin is
\* gone, the sidecar a.meta is either not valid TOML or the one written with the lost
\* payload, and a partial a.tmp of an interrupted download may be there
InitMeta ==
    \E n \in {0, MaxAttempts}, tmp \in {AbsentFile, FileOf(SubSeq(Body("u1", 1), 1, 1))},
       side \in {GarbledMeta, MirroredMetas[<<"a", "meta">>]} :
        Boot([DefaultConfig EXCEPT !.download_concurrency = 1, !.download_retry = n],
             FileMapOf({<<"a", "bin">>}),
             [p \in DataPaths |-> IF p = <<"a", "tmp">> THEN tmp ELSE AbsentFile],
             [p \in MetaPaths |-> IF p = <<"a", "meta">> THEN side ELSE AbsentMeta])
NextMeta == SyncStep({"sched"}) \/ \E u \in Urls : OriginUpdate(u)
SpecMeta == InitMeta /\ [][NextMeta]_vars

\* one pass after the other over a one-name map, with writers of the configuration
\* arriving while a pass runs; the runtime takes every step that stays possible, the
\* callers of the management plane arrive when they like
LockWriters ==
    {<<"update_config", [config EXCEPT !.interval_secs = MinIntervalSecs]>>,
     <<"reload_config", docs.config[1]>>}
InitLock ==
    \E n \in {0, 1} :
        Boot([DefaultConfig EXCEPT !.download_concurrency = 1, !.download_retry = n],
             FileMapOf({<<"a", "bin">>}), [p \in DataPaths |-> AbsentFile],
             [p \in MetaPaths |-> AbsentMeta])
NextLock ==
    \/ SyncStep({"sched"})
    \/ \E w \in LockWriters : QueueWriter(w[1], w[2])
    \/ GrantWriter
    \/ ReloadEnd
FairLock ==
    /\ InitLock /\ [][NextLock]_vars
    /\ WF_vars(SyncStep({"sched"})) /\ WF_vars(GrantWriter) /\ WF_vars(ReloadEnd)

\* passes of the scheduler and of trigger_sync while the file map is replaced once: by
\* update_files, or by reload_configs after the operator has edited the files document
SnapInputs ==
    {[replace_all |-> TRUE, new_files |-> <<[filename |-> <<"b", "bin">>, path |-> "u3"]>>,
      add_files |-> <<>>, remove_files |-> <<>>]}
InitSnap ==
    \E n \in {0, 1} :
        Boot([DefaultConfig EXCEPT !.download_concurrency = 1, !.download_retry = n],
             FileMapOf({<<"a", "bin">>}), [p \in DataPaths |-> AbsentFile],
             [p \in MetaPaths |-> AbsentMeta])
NextSnap ==
    \/ SyncStep(Runners)
    \/ \E input \in SnapInputs, persist_ok \in BOOLEAN :
          admin.last = None /\ update_files(input, persist_ok)
    \/ admin.last = None /\ ReloadBegin(TRUE)
    \/ ReloadEnd
    \/ admin.last = None /\ EditDocument("files", Some(NoFiles))
SpecSnap == InitSnap /\ [][NextSnap]_vars

\* clean_unused_files called while the scheduler's passes run, over a directory that is
\* empty or holds the mirrored a.bin
InitClean ==
    \E n \in {0, 1}, dir \in Leftovers :
        Boot([DefaultConfig EXCEPT !.download_concurrency = 1, !.download_retry = n],
             FileMapOf({<<"a", "bin">>}), dir.disk, dir.metas)
NextClean ==
    \/ SyncStep({"sched"})
    \/ CleanBegin
    \/ CleanRun
SpecClean == InitClean /\ [][NextClean]_vars

---------------------------------------------------------------------------
(* Properties *)

ActivePasses == {r \in Runners : runner[r].pc # "idle"}
\* the tasks of r's pass that have been spawned and have not ended
ActiveTasks(r) == {f \in FileNames : tasks[<<r, f>>].pc \notin {"none", "done"}}
EndedWith(r, outcomes) == {f \in FileNames : tasks[<<r, f>>].pc = "done" /\ tasks[<<r, f>>].outcome \in outcomes}
DoneEntries(s) == {f \in DOMAIN s.files : s.files[f].done}
ErrorEntries(s) == {f \in DOMAIN s.files : s.files[f].error # None}
Steady == \A k \in TaskIds : tasks[k].pc \in {"none", "done"}
Results == {"Success", "PartialSuccess", "Failed"}

\* C1: in every reachable state at most one sync pass is active, whether it was started
\* by the scheduler or by trigger_sync.
C1_AtMostOnePass == Cardinality(ActivePasses) <= 1

\* C2: a pass that has started eventually calls sync_finished, leaving running = false
\* and last_result one of Success, PartialSuccess, Failed, for every configuration the
\* center can hold.
C2_EveryPassTerminates ==
    \A r \in Runners :
        (runner[r].pc = "dispatch") ~>
            (runner[r].pc = "idle" /\ ~status.running /\ status.last_result \in Results)

\* C3: within one pass the tasks spawned and not yet ended are at most the
\* download_concurrency read at the start of the pass, and every ended task has given
\* its permit back: the free permits are exactly the capacity minus the running tasks.
C3_ConcurrencyBound ==
    \A r \in Runners :
        runner[r].pc = "dispatch" =>
            /\ Cardinality(ActiveTasks(r)) <= runner[r].conc
            /\ runner[r].permits = runner[r].conc - Cardinality(ActiveTasks(r))

\* C3's case: a pass of capacity two running two tasks while a third file waits for a
\* permit, after a task of the pass has ended in a final error or a panic.
C3_Witness ==
    \E r \in Runners :
        /\ runner[r].pc = "dispatch"
        /\ runner[r].conc = 2
        /\ Cardinality(ActiveTasks(r)) = 2
        /\ runner[r].permits = 0
        /\ EndedWith(r, {"exhausted", "panic"}) # {}

\* a file holding the whole body of one url, and nothing else
CompleteBody(bytes) ==
    \E u \in Urls, v \in Versions :
        /\ Len(bytes) = BodyLen(u, v)
        /\ \A i \in 1..Len(bytes) : bytes[i][1] = u

\* C4: the payload path of a file is never partially written: in every reachable state
\* it is absent or holds the complete body of a transfer.
C4_PayloadNeverPartial ==
    \A f \in FileNames : disk[FilePath(f)].present => CompleteBody(disk[FilePath(f)].bytes)

\* C5: when no download is in flight, a payload whose sidecar records total_size = S
\* has size exactly S.
C5_SidecarMatchesPayload ==
    Steady =>
        \A f \in FileNames :
            LET m == load_meta(metas, MetaPath(f))
            IN (disk[FilePath(f)].present /\ m.total_size # None) =>
                    FileSize(disk, FilePath(f)) = m.total_size[1]

\* C6: failed_files <= finished_files <= total_files in every reachable state.
C6_CountersOrdered ==
    /\ status.failed_files <= status.finished_files
    /\ status.finished_files <= status.total_files

\* C7: finished_files is the number of progress entries with done = true and failed_files
\* the number of entries carrying an error, in every reachable state.
C7_CountersMatchEntries ==
    /\ status.finished_files = Cardinality(DoneEntries(status))
    /\ status.failed_files = Cardinality(ErrorEntries(status))

\* C8: after a completed pass finished_files = total_files and failed_files is the
\* number of entries carrying an error: every file of the snapshot has contributed one
\* terminal status mutation.
C8_PassAccountsForEveryFile ==
    (~status.running /\ status.last_sync # None) =>
        /\ status.finished_files = status.total_files
        /\ status.failed_files = Cardinality(ErrorEntries(status))

C10_MixedPassIsPartial ==
    [][\A r \in Runners :
          (/\ runner[r].pc = "dispatch" /\ runner'[r].pc = "idle"
           /\ EndedWith(r, {"ok"}) # {}
           /\ EndedWith(r, {"exhausted"}) # {}) =>
              /\ status'.last_result = "PartialSuccess"
              /\ status'.failed_files = Cardinality(EndedWith(r, {"exhausted"}))
              /\ status'.finished_files = status'.total_files
              /\ status'.last_ok_sync = runner[r].ok_before]_vars

\* a step in which a task of r's pass ends otherwise than in success
TaskFails(r) ==
    \E f \in FileNames :
        /\ tasks[<<r, f>>].pc \notin {"none", "done"}
        /\ tasks'[<<r, f>>].pc = "done"
        /\ tasks'[<<r, f>>].outcome \in {"exhausted", "probe_failed", "panic"}
PassReturns(r) == runner[r].pc = "dispatch" /\ runner'[r].pc = "idle"

\* C11: no per-file failure aborts the pass: a task ending in retries exhausted, a failed
\* probe or a panic leaves the pass running with the same files still to dispatch; the
\* pass ends only after every file of its snapshot has had a task that ended, sync_finished
\* is called by that step and by no other; and every file of the snapshot gets its
\* download started and the pass returns.
C11_FailureDoesNotAbortPass ==
    /\ [][\A r \in Runners :
            /\ TaskFails(r) => (runner'[r].pc = "dispatch" /\ runner'[r].todo = runner[r].todo)
            /\ PassReturns(r) =>
                  /\ \A f \in DOMAIN runner[r].snapshot : tasks[<<r, f>>].pc = "done"
                  /\ ~status'.running /\ status'.last_sync = Some(now)
            /\ (status.running /\ ~status'.running) => \E q \in Runners : PassReturns(q)]_vars
    /\ \A r \in Runners, f \in FileNames :
          (runner[r].pc = "dispatch" /\ runner[r].conc > 0 /\ f \in runner[r].todo)
              ~> (tasks[<<r, f>>].pc # "none")
    /\ \A r \in Runners :
          (runner[r].pc = "dispatch" /\ runner[r].conc > 0) ~> (runner[r].pc = "idle" /\ ~status.running)

\* C11's case: a pass over two files has returned, one file having exhausted its retries
\* and the other downloaded.
C11_Witness ==
    /\ ~status.running /\ status.last_sync # None
    /\ status.total_files = 2
    /\ \E f, g \in DOMAIN status.files :
          /\ status.files[f].error # None
          /\ status.files[g].done /\ status.files[g].error = None


LastSeq(a) == IF a.last = None THEN 0 ELSE a.last[1].seq
\* this step is the return of the management operation op
JustReturned(op) == LastSeq(admin') > LastSeq(admin) /\ admin'.last[1].op = op

\* C12: update_config and update_files are all-or-nothing.  When the call returns an
\* error (a validation failure, a rejected entry at any position of the list in either
\* mode, a failure to persist) the document in memory and the document on disk are what
\* they were before the call; when it returns Ok both are the post-image of the mutator.
\* The other document is never touched.  A reader reads the documents between two steps,
\* so it sees the pre-image or the post-image and nothing else.
C12_UpdatesAllOrNothing ==
    [][/\ JustReturned("update_config") =>
            LET l == admin'.last[1]
                post == ApplyConfigInput(config, InputOf(l.via, l.request))
            IN /\ IF l.result = "Ok"
                  THEN config' = post /\ docs'.config = Some(post)
                  ELSE config' = config /\ docs'.config = docs.config
               /\ files' = files /\ docs'.files = docs.files
       /\ JustReturned("update_files") =>
            LET l == admin'.last[1]
                post == ApplyFilesInput(files, l.request)
            IN /\ IF l.result = "Ok"
                  THEN post.ok /\ files' = post.value /\ docs'.files = Some(post.value)
                  ELSE files' = files /\ docs'.files = docs.files
               /\ config' = config /\ docs'.config = docs.config]_vars

\* a replace_all whose second entry was rejected, on a file map that is not empty, and a
\* clean_unused_files waiting for the file map while it happened
C12_Witness ==
    /\ admin.last # None
    /\ admin.last[1].op = "update_files"
    /\ admin.last[1].result # "Ok"
    /\ admin.last[1].request.replace_all
    /\ Len(admin.last[1].request.new_files) = 2
    /\ admin.last[1].request.new_files[2].filename = EmptyName
    /\ DOMAIN files # {}
    /\ admin.clean # None

\* the fields of an input that are outside their bounds
OutOfBounds(input) ==
    {f \in {"interval_secs"} : input[f] # None /\ input[f][1] < 100}
    \cup {f \in {"download_concurrency"} : input[f] # None /\ input[f][1] \notin 1..64}
    \cup {f \in {"download_retry"} : input[f] # None /\ input[f][1] > 10}
    \cup {f \in {"retry_base_delay_ms"} : input[f] # None /\ input[f][1] \notin 10..60000}
    \cup {f \in {"storage_dir"} : input[f] # None /\ input[f][1] \in {<<"srv">>}}
    \cup {f \in {"url"} :
            input[f] # None /\ input[f][1] \in {<<>>, <<"s", ":", "/", "/", "h">>,
                                                <<"a", "/", "b">>, <<"a", " ", "b">>}}
    \cup {f \in {"proxy"} :
            /\ input[f] # None
            /\ input[f][1] # None
            /\ input[f][1][1] \in {<<>>, <<"p", ":", "1">>,
                                   <<"f", "t", "p", ":", "/", "/", "p", ":", "1">>,
                                   <<"h", "t", "t", "p", ":", "/", "/", "p">>}}

\* C13: update_config returns InvalidArgument and leaves the configuration, in memory
\* and on disk, unchanged whenever a field present in the input is outside its bound
\* (interval_secs < 100, download_concurrency outside 1..=64, download_retry > 10,
\* retry_base_delay_ms outside 10..=60000, a relative storage_dir, a malformed url or
\* proxy), whatever the other fields of the input are: no field is applied before every
\* field has been checked.
C13_RejectsOutOfBounds ==
    [][JustReturned("update_config") =>
          LET l == admin'.last[1]
          IN OutOfBounds(InputOf(l.via, l.request)) # {} =>
                /\ l.result = "InvalidArgument"
                /\ config' = config
                /\ docs' = docs]_vars

\* an input with a valid interval_secs and download_concurrency = 0 was rejected
C13_Witness ==
    /\ admin.last # None
    /\ admin.last[1].op = "update_config"
    /\ admin.last[1].request.interval_secs = Some(100)
    /\ admin.last[1].request.download_concurrency = Some(0)
    /\ admin.last[1].result = "InvalidArgument"
    /\ config.interval_secs # 100

\* C14: a successful update_config changes exactly the fields present in the request:
\* an absent field keeps its value, a present one takes the value given; for proxy,
\* absent leaves it unchanged, present-and-empty (a null or an empty string) sets it to
\* none, present-and-nonempty sets it to the value.  Through either transport adapter.
C14_PartialUpdate ==
    [][JustReturned("update_config") =>
          LET l == admin'.last[1]
              body == l.request
          IN l.result = "Ok" =>
                /\ \A f \in DOMAIN body \ {"proxy"} :
                      config'[f] = IF body[f] # None THEN body[f][1] ELSE config[f]
                /\ config'.proxy =
                      IF body.proxy.kind = "missing" THEN config.proxy
                      ELSE IF body.proxy.kind = "null" \/ body.proxy.s = <<>> THEN None
                      ELSE Some(body.proxy.s)]_vars

\* C15: reload_configs fails atomically.  A reload that returns an error (a document
\* could not be read or parsed, storage_dir could not be created) changes neither the
\* configuration nor the file map in memory, and a reload writes the configuration only
\* when both documents have been read and parsed.
C15_ReloadFailsAtomically ==
    [][/\ (JustReturned("reload_config") /\ admin'.last[1].result # "Ok") =>
             (config' = config /\ files' = files /\ admin'.reload = admin.reload)
       /\ (admin.reload = None /\ admin'.reload # None) =>
             /\ docs.config # None /\ docs.files # None
             /\ config' = docs.config[1]
             /\ admin'.reload[1].new_files = docs.files[1]]_vars

\* a reload failed on files.toml although config.toml held a new, valid configuration
C15_Witness ==
    /\ admin.last # None
    /\ admin.last[1].op = "reload_config"
    /\ admin.last[1].result = "Internal"
    /\ docs.files = None
    /\ docs.config # None
    /\ docs.config # Some(config)

\* C16: a successful reload_configs replaces the configuration and the file map as one
\* step for readers: clean_unused_files never takes its two read guards so that it sees
\* the configuration the reload has written together with the file map the reload is
\* about to replace.
C16_ReloadAtomicForReaders ==
    [][(admin.clean # None /\ admin'.clean = None) =>
          ~(/\ admin.reload # None
            /\ admin.clean[1].config # admin.reload[1].old_config
            /\ files = admin.reload[1].old_files
            /\ files # admin.reload[1].new_files)]_vars

Names(items) == {items[i].filename : i \in DOMAIN items}
\* the path of the last entry of the list for the name n
LastPath(items, n) ==
    items[CHOOSE i \in DOMAIN items :
            /\ items[i].filename = n
            /\ \A j \in DOMAIN items : items[j].filename = n => j <= i].path
\* the post-image of the file map old for the input
PostImage(old, input) ==
    IF input.replace_all
    THEN [n \in Names(input.new_files) |-> LastPath(input.new_files, n)]
    ELSE [n \in (DOMAIN old \ Range(input.remove_files)) \cup Names(input.add_files) |->
            IF n \in Names(input.add_files) THEN LastPath(input.add_files, n) ELSE old[n]]

\* C17: an update_files that returns Ok leaves the file map equal to: with replace_all,
\* exactly the entries of new_files, a later entry for a name overwriting an earlier
\* one, add_files and remove_files ignored; without it, the old map minus remove_files,
\* overlaid with add_files (removals first, so a name in both lists ends up present
\* with the added url), new_files ignored.
C17_FilesPostImage ==
    [][(JustReturned("update_files") /\ admin'.last[1].result = "Ok") =>
          files' = PostImage(files, admin'.last[1].request)]_vars

\* a merge that removed a.bin and added it twice left it with the url added last
C17_Witness ==
    /\ admin.last # None
    /\ admin.last[1].op = "update_files"
    /\ admin.last[1].result = "Ok"
    /\ ~admin.last[1].request.replace_all
    /\ admin.last[1].request.remove_files = <<<<"a", "bin">>>>
    /\ admin.last[1].request.add_files =
          <<[filename |-> <<"a", "bin">>, path |-> "u1"], [filename |-> <<"a", "bin">>, path |-> "u3"]>>
    /\ admin.last[1].request.new_files # <<>>
    /\ files = [f \in {<<"a", "bin">>} |-> "u3"]

\* the regular files of storage_dir whose names are not values of the file map fm
Unlisted(fm, d, m) ==
    {p \in DataPaths : d[p].present /\ \A f \in DOMAIN fm : fm[f] # NameOf(p)}
    \cup {p \in MetaPaths : m[p].present /\ \A f \in DOMAIN fm : fm[f] # NameOf(p)}

Handles416(path) ==
    \E r \in Runners, f \in FileNames :
        /\ MetaPath(f) = path
        /\ tasks[<<r, f>>].pc = "attempt"
        /\ tasks'[<<r, f>>] # tasks[<<r, f>>]
        /\ ~disk'[TmpPath(f)].present

\* C19: a sidecar that exists is deleted by no operation of the system other than the
\* download engine's handling of a 416 Range-Not-Satisfiable answer for its file.
C19_SidecarDeletedOnlyOn416 ==
    [][\A path \in MetaPaths :
          (metas[path].present /\ ~metas'[path].present) => Handles416(path)]_vars

\* C20: the scheduler runs its first pass at startup, before any read of the interval
\* and any sleep; after every pass it reads interval_secs from the configuration center,
\* sleeps that long and runs the next pass, in this order.  The interval is read anew in
\* every iteration, so the value an update_config has set is the one the next sleep
\* uses.  The permit of the scheduler's semaphore is taken exactly while one of its
\* passes runs, never while it reads the interval or sleeps.
C20_SchedulerLoop ==
    /\ [](sched.pc \in {"loop", "sleep", "due"} => status.last_sync # None)
    /\ [](sched.pc \in {"boot", "loop"} => sched.interval_secs = None)
    /\ []((sync_lock = 0) <=> (runner["sched"].pc # "idle"))
    /\ []((runner["sched"].pc # "idle") <=> (sched.pc = "pass"))
    /\ [][/\ sched'.pc # sched.pc =>
               <<sched.pc, sched'.pc>> \in {<<"boot", "pass">>, <<"pass", "loop">>,
                                            <<"loop", "sleep">>, <<"sleep", "due">>,
                                            <<"due", "pass">>}
          /\ (sched.pc = "loop" /\ sched'.pc = "sleep") =>
               sched'.interval_secs = Some(config.interval_secs)
          /\ (sched.pc = "sleep" /\ sched'.pc = "due") =>
               sched'.interval_secs = sched.interval_secs
          /\ (sched.pc = "sleep" /\ sched'.pc = "sleep") =>
               sched'.interval_secs = sched.interval_secs]_vars

\* the scheduler sleeps the interval an update_config set after the first pass, and a
\* later update_config has already set another one for the sleep after the next pass
C20_Witness ==
    /\ sched.pc = "sleep"
    /\ sched.interval_secs = Some(200)
    /\ config.interval_secs = 100
    /\ sync_lock = 1
    /\ admin.last # None
    /\ admin.last[1].op = "update_config"
    /\ admin.last[1].result = "Ok"
    /\ admin.last[1].seq = 2

\* C21: while a sync pass runs, a writer of the configuration (update_config or
\* reload_configs) and the pass cannot deadlock: under a fair, write-preferring lock a
\* writer that arrives while sync_once and its tasks hold or request read guards
\* eventually acquires the lock, every task that requests its guard after the writer
\* queued eventually proceeds, and both the writer and the pass complete.
C21_WriterAndPassComplete ==
    /\ (admin.writer # None) ~> (admin.writer = None)
    /\ \A f \in FileNames : (tasks[<<"sched", f>>].pc = "start") ~> (tasks[<<"sched", f>>].pc # "start")
    /\ (runner["sched"].pc # "idle") ~> (runner["sched"].pc = "idle")

\* C22: a freshness probe that fails, by a transport error or by a status other than
\* 304, 200 and 206, is a failed attempt of its file: it is retried under the backoff
\* discipline, and when the download finally fails the file is recorded through
\* file_error, so that it counts in finished_files and in failed_files.
C22_FailedProbeIsFailedAttempt ==
    [][\A k \in TaskIds :
          (tasks[k].pc = "probe" /\ tasks'[k].pc = "done" /\ tasks'[k].failure # "") =>
              /\ tasks[k].attempt + 1 >= tasks[k].max_retry
              /\ status'.finished_files = status.finished_files + 1
              /\ status'.failed_files = status.failed_files + 1
              /\ k[2] \in DOMAIN status'.files
              /\ status'.files[k[2]].error # None]_vars

\* how often x occurs in the sequence seq
Count(seq, x) == Cardinality({i \in DOMAIN seq : seq[i] = x})
\* the sleeps that precede attempt number n (0-based) of a download
Backoff(base_delay_ms, n) == [i \in 1..n |-> base_delay_ms * 2^(i - 1)]

\* C23: download performs at most max_retry body-transfer attempts and returns success
\* at the first successful one; after a failed attempt k (0-based) that is not the last
\* it sleeps base_delay_ms * 2^k milliseconds before attempt k+1; it never sleeps after
\* a success or after the last failed attempt; the Error event is emitted exactly once,
\* only after the last failed attempt, and that attempt's error is returned.
C23_RetryDiscipline ==
    /\ [](\A k \in TaskIds :
            LET t == tasks[k]
            IN /\ t.sleeps = Backoff(t.base_delay, t.attempt)
               /\ t.pc = "stream" => t.attempt < t.max_retry
               /\ t.outcome = "ok" => t.attempt < t.max_retry
               /\ t.outcome = "exhausted" =>
                     /\ t.attempt + 1 = t.max_retry
                     /\ t.failure # ""
                     /\ Count(t.events, "Error") = 1
                     /\ t.events[Len(t.events)] = "Error"
               /\ t.outcome # "exhausted" => Count(t.events, "Error") = 0)
    /\ [][\A k \in TaskIds :
            LET t == tasks[k]
                n == tasks'[k]
            IN /\ (n.attempt # t.attempt /\ n.pc # "none") =>
                     /\ n.attempt = t.attempt + 1
                     /\ n.attempt < t.max_retry
                     /\ n.pc = "attempt"
                     /\ n.failure # ""
                     /\ n.sleeps = Append(t.sleeps, t.base_delay * 2^t.attempt)
               /\ (t.pc = "attempt" /\ n.request # t.request) => t.attempt < t.max_retry
               /\ Count(n.events, "Finished") > Count(t.events, "Finished") =>
                     /\ n.pc = "done"
                     /\ n.sleeps = t.sleeps
               /\ Count(n.events, "Error") > Count(t.events, "Error") =>
                     /\ n.pc = "done"
                     /\ n.sleeps = t.sleeps
                     /\ status'.files[k[2]].error # None]_vars

\* a download gave up after its last attempt, having slept 1000 ms, then 2000 ms
C23_Witness ==
    \E k \in TaskIds :
        /\ tasks[k].outcome = "exhausted"
        /\ tasks[k].max_retry = MaxAttempts
        /\ tasks[k].attempt = MaxAttempts - 1
        /\ Len(tasks[k].sleeps) = MaxAttempts - 1
        /\ tasks[k].sleeps[1] = 1000
        /\ tasks[k].sleeps[2] = 2000
        /\ Count(tasks[k].events, "Error") = 1

\* C24: for every value of download_retry that update_config accepts (0..=10),
\* download_file returns a Result and never reaches the unreachable!() after the attempt
\* loop; in particular the file still receives a terminal status event.
C24_NeverUnreachable ==
    \A k \in TaskIds :
        (tasks[k].pc = "done" /\ tasks[k].max_retry \in 0..MaxRetry) =>
            /\ tasks[k].outcome # "panic"
            /\ tasks[k].outcome \in {"ok", "exhausted"} =>
                  Count(tasks[k].events, "Finished") + Count(tasks[k].events, "Error") = 1

\* C25: within one file's task in one pass the events delivered to the status store
\* form a sequence Started, then zero or more Progress, then exactly one of Finished or
\* Error: no Progress or terminal event precedes Started, nothing follows the terminal
\* event, and this holds across retries and on the not-modified path.  (A task that
\* panicked reports nothing: that case is C24's and is left out here.)
C25_EventOrder ==
    \A k \in TaskIds :
        LET e == tasks[k].events
        IN /\ \A i \in DOMAIN e :
                 /\ (e[i] = "Started") <=> (i = 1)
                 /\ e[i] \in {"Finished", "Error"} => i = Len(e)
           /\ (tasks[k].pc = "done" /\ tasks[k].outcome # "panic") =>
                 (e # <<>> /\ e[Len(e)] \in {"Finished", "Error"})
           /\ (e # <<>> /\ e[Len(e)] \in {"Finished", "Error"}) => tasks[k].pc = "done"

\* the task k takes the step in which its freshness probe is answered 304
NotModified(k) ==
    tasks[k].pc = "probe" /\ tasks'[k].pc = "done" /\ tasks'[k].outcome = "not_modified"

\* C26: when P is complete (M.total_size = |P|) and the origin answers the conditional
\* GET with 304, download returns success, emits exactly one Finished event and no
\* Started or Progress event, reads no body bytes, leaves P and T untouched, and changes
\* nothing in M except fetched_at: etag, last_modified and total_size keep their values.
C26_NotModifiedFrame ==
    [][\A k \in TaskIds :
          NotModified(k) =>
              LET path == MetaPath(k[2])
              IN /\ tasks'[k].events = <<"Finished">>
                 /\ tasks'[k].failure = ""
                 /\ status'.finished_files = status.finished_files + 1
                 /\ status'.failed_files = status.failed_files
                 /\ disk' = disk
                 /\ metas[path].present /\ metas'[path].present
                 /\ metas'[path].meta = [metas[path].meta EXCEPT !.fetched_at = Some(now)]
                 /\ \A other \in MetaPaths \ {path} : metas'[other] = metas[other]]_vars

\* C27: the freshness probe is issued if and only if P exists, M records a total_size
\* and |P| equals it; when P is absent, or |P| differs from M.total_size, or no
\* total_size is recorded (including any recorded value when P is absent), the probe is
\* skipped and the engine goes straight to body transfer.
C27_ProbeIffComplete ==
    [][\A k \in TaskIds :
          (tasks[k].pc = "start" /\ tasks'[k].pc # "start") =>
              LET P == disk[FilePath(k[2])]
                  M == load_meta(metas, MetaPath(k[2]))
                  complete == /\ P.present
                              /\ M.total_size # None
                              /\ M.total_size = Some(Len(P.bytes))
              IN /\ tasks'[k].pc \in {"probe", "attempt"}
                 /\ (tasks'[k].pc = "probe") <=> complete]_vars

\* the task k takes a step that ends an attempt in failure
AttemptFails(k) ==
    /\ tasks[k].pc \in {"attempt", "stream"}
    /\ \/ tasks'[k].pc = "attempt" /\ tasks'[k].attempt = tasks[k].attempt + 1
       \/ tasks'[k].pc = "done" /\ tasks'[k].outcome = "exhausted"

\* C28: on a 206 response, if M.etag is present and differs from the response's ETag
\* (including when the response carries no ETag), the attempt fails, T is deleted, no
\* byte of that response is appended to T, and P and M are left unchanged.
C28_ETagMismatch ==
    [][\A k \in TaskIds :
          LET M == load_meta(metas, MetaPath(k[2]))
              T == TmpPath(k[2])
              P == FilePath(k[2])
          IN /\ (tasks[k].pc = "attempt" /\ tasks'[k].pc = "stream"
                    /\ tasks'[k].status = "206") =>
                   (M.etag = None \/ M.etag = tasks'[k].new_etag)
             /\ (AttemptFails(k) /\ tasks[k].pc = "attempt" /\ tasks'[k].failure = "etag") =>
                   /\ M.etag # None
                   /\ tasks'[k].request[1].range # None
                   /\ ~disk'[T].present
                   /\ disk'[P] = disk[P]
                   /\ metas' = metas
                   /\ tasks'[k].pc # "stream"
                   /\ Count(tasks'[k].events, "Started") = Count(tasks[k].events, "Started")]_vars

\* a resumed transfer was refused: the sidecar holds an ETag, the request carried a
\* Range, and the temp file is gone while the payload and the sidecar are still there
C28_Witness ==
    \E k \in TaskIds :
        /\ tasks[k].failure = "etag"
        /\ tasks[k].request # None
        /\ tasks[k].request[1].range = Some(1)
        /\ tasks[k].request[1].if_none_match # None
        /\ ~disk[TmpPath(k[2])].present
        /\ disk[FilePath(k[2])].present
        /\ metas[MetaPath(k[2])].present
        /\ metas[MetaPath(k[2])].meta.etag = tasks[k].request[1].if_none_match

\* the task k sends the request of an attempt and gets its answer
Attempts(k) ==
    tasks[k].pc = "attempt" /\ (tasks'[k].pc = "stream" \/ AttemptFails(k))

\* the task k completes the transfer of a 200 response and returns success
Completes200(k) ==
    /\ tasks[k].pc = "stream" /\ tasks[k].status = "200"
    /\ tasks'[k].pc = "done" /\ tasks'[k].outcome = "ok"

\* C29: after an attempt fails on an ETag mismatch during resume and retries remain,
\* the next attempt's request carries no Range header; if the origin then answers 200
\* with the new content, the download succeeds with P equal to the new content, no T
\* left, M.etag equal to the new ETag and M.total_size equal to the new length.
C29_ColdFetchAfterMismatch ==
    [][\A k \in TaskIds :
          /\ (tasks[k].failure = "etag" /\ Attempts(k)) =>
                tasks'[k].request[1].range = None
          /\ (tasks[k].failure = "etag" /\ Completes200(k)) =>
                LET ver == tasks[k].last_modified[1]
                    M == metas'[MetaPath(k[2])]
                IN /\ disk'[FilePath(k[2])] = FileOf(Body(tasks[k].url, ver))
                   /\ ~disk'[TmpPath(k[2])].present
                   /\ M.present
                   /\ M.meta.etag = Some(ETag(tasks[k].url, ver))
                   /\ M.meta.total_size = Some(BodyLen(tasks[k].url, ver))]_vars

\* C30: on a 416 response the attempt fails after deleting both T and M; if retries
\* remain, the next attempt is a cold fetch: its request carries no Range header and no
\* If-None-Match / If-Modified-Since validators.
C30_ColdFetchAfter416 ==
    [][\A k \in TaskIds :
          /\ (AttemptFails(k) /\ tasks[k].pc = "attempt" /\ tasks'[k].failure = "416") =>
                /\ tasks'[k].request[1].range # None
                /\ ~disk'[TmpPath(k[2])].present
                /\ ~metas'[MetaPath(k[2])].present
          /\ (tasks[k].failure = "416" /\ Attempts(k)) =>
                tasks'[k].request =
                    Some([range |-> None, if_none_match |-> None, if_modified_since |-> None])]_vars

\* C31: each body-transfer attempt measures downloaded = |T| (0 if T is absent) and adds
\* the header Range: bytes=<downloaded>- if and only if downloaded > 0 and (M.total_size
\* is absent or downloaded < M.total_size); in every other case the request carries no
\* Range header.
C31_RangeIffPartial ==
    [][\A k \in TaskIds :
          Attempts(k) =>
              LET T == disk[TmpPath(k[2])]
                  M == metas[MetaPath(k[2])]
                  downloaded == IF T.present THEN Len(T.bytes) ELSE 0
                  recorded == M.present /\ M.meta.total_size # None
                  partial == /\ downloaded > 0
                             /\ (~recorded \/ downloaded < M.meta.total_size[1])
              IN /\ tasks'[k].request # None
                 /\ partial => tasks'[k].request[1].range = Some(downloaded)
                 /\ ~partial => tasks'[k].request[1].range = None]_vars

\* a first download is being resumed: no sidecar yet, one byte in T, the request asked
\* for the bytes from offset 1 and the origin answered 206
C31_Witness ==
    \E k \in TaskIds :
        /\ tasks[k].pc = "stream"
        /\ tasks[k].status = "206"
        /\ tasks[k].attempt > 0
        /\ tasks[k].request = Some([range |-> Some(1), if_none_match |-> None,
                                     if_modified_since |-> None])
        /\ ~metas[MetaPath(k[2])].present

\* the task k is in the transfer of a 206 that answered a Range request sent with the
\* sidecar's ETag, and the response carries that ETag
Resuming(k) ==
    /\ tasks[k].pc = "stream" /\ tasks[k].status = "206"
    /\ tasks[k].request # None
    /\ tasks[k].request[1].range # None
    /\ tasks[k].request[1].if_none_match # None
    /\ tasks[k].request[1].if_none_match = tasks[k].new_etag

\* C32: resume: when T holds n > 0 bytes, M.total_size = S > n and M.etag matches, and
\* the origin answers the Range request with 206 carrying the remaining S - n bytes, the
\* response is appended to T, T is renamed to P, and afterwards |P| = S, T does not
\* exist, M.total_size = S (content_length + n), and the Progress values start from n
\* and are non-decreasing.
C32_Resume ==
    [][\A k \in TaskIds :
          LET t == tasks[k]
              T == TmpPath(k[2])
              P == FilePath(k[2])
              n == t.request[1].range[1]
          IN /\ (Resuming(k) /\ tasks'[k].pc = "stream" /\ tasks'[k].pos # t.pos) =>
                   /\ tasks'[k].pos = t.pos + 1
                   /\ tasks'[k].pos > n
                   /\ status'.files[k[2]].downloaded = tasks'[k].pos
                   /\ disk[T].present /\ disk'[T].present
                   /\ disk'[T].bytes = Append(disk[T].bytes, Head(t.rest))
                   /\ Len(disk'[T].bytes) = tasks'[k].pos
             /\ (Resuming(k) /\ t.rest = <<>> /\ tasks'[k].pc # "stream") =>
                   /\ tasks'[k].pc = "done" /\ tasks'[k].outcome = "ok"
                   /\ disk'[P].present
                   /\ Len(disk'[P].bytes) = BodyLen(t.url, t.last_modified[1])
                   /\ disk'[P].bytes = disk[T].bytes
                   /\ ~disk'[T].present
                   /\ metas'[MetaPath(k[2])].present
                   /\ metas'[MetaPath(k[2])].meta.total_size = Some(Len(disk'[P].bytes))]_vars

\* the task k is in the transfer of a 200 that answered a request carrying Range
\* bytes=n- with n > 0
FullAnswerToRange(k) ==
    /\ tasks[k].pc = "stream" /\ tasks[k].status = "200"
    /\ tasks[k].request # None
    /\ tasks[k].request[1].range # None

\* C33: when the origin answers a request that carried a Range header with 200 (full
\* body) instead of 206, the existing partial T is truncated before writing, so after
\* the rename P equals exactly the response body (no stale prefix), and M.total_size
\* equals content_length without adding the previous partial size.
C33_FullBodyTruncates ==
    [][\A k \in TaskIds :
          LET t == tasks[k]
              T == TmpPath(k[2])
              P == FilePath(k[2])
          IN /\ (t.pc = "attempt" /\ FullAnswerToRange(k)') =>
                   /\ disk[T].present /\ Len(disk[T].bytes) = tasks'[k].request[1].range[1]
                   /\ disk'[T] = FileOf(<<>>)
                   /\ tasks'[k].total = Some(BodyLen(t.url, origin[t.url]))
             /\ (FullAnswerToRange(k) /\ tasks'[k].pc = "done" /\ tasks'[k].outcome = "ok") =>
                   /\ disk'[P] = FileOf(Body(t.url, t.last_modified[1]))
                   /\ metas'[MetaPath(k[2])].present
                   /\ metas'[MetaPath(k[2])].meta.total_size =
                          Some(BodyLen(t.url, t.last_modified[1]))]_vars

\* the sidecar of the file of task k is present and is not valid TOML
Unparsable(k) ==
    metas[MetaPath(k[2])].present /\ ~metas[MetaPath(k[2])].parsable

\* C34: when the sidecar M cannot be parsed, the engine proceeds as with an empty
\* meta and performs a cold fetch: a task that starts goes to the attempt loop without
\* a probe, and the request of an attempt carries neither If-None-Match nor
\* If-Modified-Since nor Range, whatever T holds.
C34_GarbledMetaColdFetch ==
    [][\A k \in TaskIds :
          /\ (Unparsable(k) /\ tasks[k].pc = "start" /\ tasks'[k].pc # "start") =>
                tasks'[k].pc = "attempt" /\ tasks'[k].request = None
          /\ (Unparsable(k) /\ tasks[k].pc = "attempt" /\ tasks'[k].request # tasks[k].request) =>
                tasks'[k].request = Some([range |-> None, if_none_match |-> None,
                                          if_modified_since |-> None])]_vars

\* the path P followed by one more extension: a.bin and "tmp" give a.bin.tmp
Appended(P, ext) == Append(P, ext)
\* the tasks of pass r that have started and not ended
Running(r) == {f \in FileNames : tasks[<<r, f>>].pc \in {"probe", "attempt", "stream"}}

\* C35: for every filename the temp path is P with ".tmp" appended and the sidecar
\* path is P with ".meta" appended, so two distinct filenames of the file map never
\* share a temp path or a sidecar path, and no two download tasks running at once in a
\* pass work on the same T or M.
C35_PathsNotShared ==
    /\ \A f \in DOMAIN files :
          /\ TmpPath(f) = Appended(FilePath(f), "tmp")
          /\ MetaPath(f) = Appended(FilePath(f), "meta")
    /\ \A f \in DOMAIN files, g \in DOMAIN files :
          f # g => TmpPath(f) # TmpPath(g) /\ MetaPath(f) # MetaPath(g)
    /\ \A r \in Runners : \A f \in Running(r), g \in Running(r) :
          f # g => TmpPath(f) # TmpPath(g) /\ MetaPath(f) # MetaPath(g)

\* the pass of r is between sync_started and sync_finished
InPass(r) == runner[r].pc # "idle"

\* C36: a pass works on the file map snapshot taken at its start: total_files is the
\* size of the snapshot, one download task is spawned for each entry of the snapshot and
\* for nothing else, and a write of the file map during the pass changes neither
\* total_files nor the files of the pass; the next pass starts from the new map.
C36_PassWorksOnSnapshot ==
    /\ [](\A r \in Runners : InPass(r) =>
            /\ status.total_files = Cardinality(DOMAIN runner[r].snapshot)
            /\ \A f \in FileNames :
                  tasks[<<r, f>>].pc # "none" =>
                      /\ f \in DOMAIN runner[r].snapshot
                      /\ tasks[<<r, f>>].url = runner[r].snapshot[f])
    /\ [][\A r \in Runners :
            /\ (~InPass(r) /\ InPass(r)') => runner'[r].snapshot = files
            /\ (InPass(r) /\ InPass(r)') => runner'[r].snapshot = runner[r].snapshot
            /\ (InPass(r) /\ ~InPass(r)') =>
                  \A f \in DOMAIN runner[r].snapshot : tasks[<<r, f>>].pc = "done"
            /\ (InPass(r) /\ files' # files) =>
                  /\ status'.total_files = status.total_files
                  /\ \A f \in FileNames : tasks'[<<r, f>>] = tasks[<<r, f>>]]_vars

\* the payload of the file of task k is lost while its sidecar still records the
\* validators of the content the origin serves now
LostPayload(k) ==
    LET M == load_meta(metas, MetaPath(k[2]))
        P == FilePath(k[2])
    IN IF tasks[k].url \notin Urls
       THEN FALSE
       ELSE /\ M.etag = Some(ETag(tasks[k].url, origin[tasks[k].url]))
            /\ ~disk[P].present \/ M.total_size # Some(Len(disk[P].bytes))

\* C37: self-healing of a lost payload: when P is absent, or of another size than
\* M.total_size, while M records the validators of the unchanged origin, the download
\* of the file ends in success with P present and |P| = M.total_size; a 304 of the
\* origin is never turned into a file error. (Downloads whose last attempt met a
\* network error or another status are left aside.)
C37_LostPayloadHeals ==
    [][\A k \in TaskIds :
          (/\ LostPayload(k)
           /\ tasks[k].pc # "done" /\ tasks'[k].pc = "done"
           /\ tasks'[k].outcome # "panic"
           /\ tasks'[k].failure \in {"", "304"}) =>
              /\ tasks'[k].outcome \in {"ok", "not_modified"}
              /\ disk'[FilePath(k[2])].present
              /\ metas'[MetaPath(k[2])].meta.total_size =
                    Some(Len(disk'[FilePath(k[2])].bytes))]_vars

\* clean_unused_files returns in this step
CleanReturns == admin.clean # None /\ admin'.clean = None

\* C38: clean_unused_files never deletes the payload P of a filename that is a key of
\* the current file map, nor the temp file T a download of such a filename is writing:
\* run next to a pass it takes nothing away from the download of a configured file.
C38_CleanSparesConfigured ==
    [][CleanReturns =>
          \A f \in DOMAIN files :
              /\ disk[FilePath(f)].present => disk'[FilePath(f)] = disk[FilePath(f)]
              /\ \A r \in Runners :
                    tasks[<<r, f>>].pc = "stream" =>
                        /\ disk'[TmpPath(f)] = disk[TmpPath(f)]
                        /\ tasks'[<<r, f>>] = tasks[<<r, f>>]]_vars

\* C39: last_result = PartialSuccess only if at least one file of the pass completed
\* without error: a pass in which every file ends in file_error is classified Failed,
\* not PartialSuccess.
C39_AllFailedIsFailed ==
    [][\A r \in Runners :
          (runner[r].pc = "dispatch" /\ runner'[r].pc = "idle") =>
              /\ status'.last_result = "PartialSuccess" =>
                    EndedWith(r, {"ok", "not_modified"}) # {}
              /\ (/\ DOMAIN runner[r].snapshot # {}
                  /\ EndedWith(r, {"exhausted"}) = DOMAIN runner[r].snapshot) =>
                    status'.last_result = "Failed"]_vars

\* C40: SyncStatus.running is true in exactly the states in which some pass has called
\* sync_started and has not yet called sync_finished: false whenever no pass is in
\* progress, true whenever a download task of a pass can still emit events.
C40_RunningIffInPass ==
    /\ status.running <=> (\E r \in Runners : InPass(r))
    /\ \A r \in Runners : ActiveTasks(r) # {} => status.running
====
